---- MODULE Spec2Model ----
(***************************************************************************)
(* Verification model of the VidDet training and detection drivers, the    *)
(* temporal detector and the YouTube-BB dataset:                           *)
(*   train_yolov3.py   save_params, resume, train, main                    *)
(*   detect_yolo3.py   detect, save_predictions, load_predictions, main    *)
(*   yolo3.py          YOLOV3.hybrid_forward (inference tail), set_nms,    *)
(*                     YOLOV3T / YOLOV3TB __init__, YOLOV3T.hybrid_forward,*)
(*                     YOLOOutputV3.hybrid_forward (class masking)         *)
(*   youtubebb.py      YouTubeBBDetection._load_items, __getitem__         *)
(*                                                                         *)
(* Strings are sequences of one-character strings, so that substring       *)
(* tests, slicing, splitting, sorting and number formatting are computed   *)
(* the way the Python code computes them.  mAP values are integers in      *)
(* units of one third of 1e-4, so that the '{:.4f}' log format rounds.     *)
(***************************************************************************)
EXTENDS Integers, Sequences, FiniteSets, TLC

VARIABLES
    FLAGS,        \* the absl flags of the running script (a record)
    pc,           \* position of the running script
    ckpts,        \* epochs e whose per-epoch file <prefix>_<e:04d>.params exists
    best_params,  \* epoch stored in <prefix>_best.params, -1 when the file is missing
    best_writes,  \* number of times <prefix>_best.params has been written
    best_log,     \* lines of <prefix>_best_map.log, each <<epoch, map in 1e-4>>
    best_map,     \* best_map[0] of train()
    current_map,  \* the current_map argument of the latest save_params call
    epoch,        \* loop variable of train()
    start_epoch,  \* the start_epoch argument of train()
    save_calls,   \* epochs save_params was called with in this run, in order
    mixup_now,    \* the mixup setting of the training dataset
    mixup_hist,   \* <<epoch, setting>> for every epoch trained in this run
    restarts,     \* number of times the run was stopped and resumed
    m,            \* state of the running call: main() of either script, constructor arguments
    fs,           \* file system: experiment / prediction directory, annotation csv
    net,          \* the detector: classes, nms settings, latest inference result
    det           \* detect(): counters and boxes; the dataset object; outputs of a forward pass

vars == <<FLAGS, pc, ckpts, best_params, best_writes, best_log, best_map,
          current_map, epoch, start_epoch, save_calls, mixup_now, mixup_hist,
          restarts, m, fs, net, det>>

trainVars == <<ckpts, best_params, best_writes, best_log, best_map,
               current_map, epoch, start_epoch, save_calls, mixup_now,
               mixup_hist, restarts>>

None == "None"      \* no exception
NoFile == <<>>       \* no file name
NoDataset == <<>>    \* no dataset, no classes

(***************************************************************************)
(* Bounds                                                                  *)
(***************************************************************************)
MaxEpochs == 3      \* largest value of the 'epochs' flag
MaxInterval == 2    \* largest |save_interval|
MaxMap == 3         \* largest mAP value, in thirds of 1e-4
MaxNoMixup == 2     \* largest value of the 'no_mixup_epochs' flag
MaxRestarts == 1    \* how often a run is stopped and resumed
MaxSamples == 3     \* largest len(dataset) of a detection run
MaxBatch == 2       \* largest value of the detection 'batch_size' flag
MaxDets == 3        \* largest number of rows the output layers produce for an image
MaxK == 2           \* largest temporal window size k
MaxStages == 3      \* largest number of backbone stages
MaxRows == 3        \* largest number of annotation rows of a csv file
MaxWindow == 4      \* largest window_size
MaxStep == 2        \* largest window_step
MaxClasses == 2     \* largest number of classes of a hierarchy
MaxLevel == 2       \* deepest level of a class hierarchy

(***************************************************************************)
(* Strings                                                                 *)
(***************************************************************************)
\* the characters used, in ASCII order
Alphabet == <<" ", ",", "-", ".", "/", "0", "1", "2", "3", "4", "5", "6", "7", "8", "9",
              "_", "a", "b", "c", "d", "e", "g", "i", "j", "k", "l", "m", "n", "o",
              "p", "r", "s", "t", "v", "x", "y">>

Ord(c) == CHOOSE i \in 1..Len(Alphabet) : Alphabet[i] = c

DigitChars == <<"0", "1", "2", "3", "4", "5", "6", "7", "8", "9">>

IsDigit(c) == \E i \in 1..10 : DigitChars[i] = c

DigitVal(c) == (CHOOSE i \in 1..10 : DigitChars[i] = c) - 1

\* str.__lt__: lexicographic comparison by character code
RECURSIVE StrLess(_, _)
StrLess(a, b) ==
    IF b = <<>> THEN FALSE
    ELSE IF a = <<>> THEN TRUE
    ELSE IF Head(a) # Head(b) THEN Ord(Head(a)) < Ord(Head(b))
    ELSE StrLess(Tail(a), Tail(b))

\* 'sub in s' for strings
Contains(s, sub) ==
    \E i \in 0..(Len(s) - Len(sub)) :
        \A j \in 1..Len(sub) : s[i + j] = sub[j]

\* s.strip() for blanks
RECURSIVE Strip(_)
Strip(s) ==
    IF s = <<>> THEN s
    ELSE IF Head(s) = " " THEN Strip(Tail(s))
    ELSE IF s[Len(s)] = " " THEN Strip(SubSeq(s, 1, Len(s) - 1))
    ELSE s

\* s[:-n]
DropLast(s, n) == IF Len(s) <= n THEN <<>> ELSE SubSeq(s, 1, Len(s) - n)

\* s.split(sep)[-1] for a one-character sep
LastField(s, sep) ==
    LET idx == {i \in 1..Len(s) : s[i] = sep}
        last == IF idx = {} THEN 0 ELSE CHOOSE i \in idx : \A j \in idx : j <= i
    IN SubSeq(s, last + 1, Len(s))

\* str(n) for n >= 0
RECURSIVE Digits(_)
Digits(n) ==
    IF n < 10 THEN <<DigitChars[n + 1]>>
    ELSE Digits(n \div 10) \o <<DigitChars[(n % 10) + 1]>>

\* '{:04d}'.format(n) for n >= 0
RECURSIVE ZeroPad(_, _)
ZeroPad(s, w) == IF Len(s) >= w THEN s ELSE ZeroPad(<<"0">> \o s, w)

Format04d(n) == ZeroPad(Digits(n), 4)

\* int(s) for a string of decimal digits
RECURSIVE ParseInt(_)
ParseInt(s) ==
    IF s = <<>> THEN 0
    ELSE 10 * ParseInt(SubSeq(s, 1, Len(s) - 1)) + DigitVal(s[Len(s)])

\* list.sort() of a listing without duplicates
RECURSIVE SortFiles(_)
SortFiles(S) ==
    IF S = {} THEN <<>>
    ELSE LET least == CHOOSE f \in S : \A g \in S : g = f \/ StrLess(f, g)
         IN <<least>> \o SortFiles(S \ {least})

(***************************************************************************)
(* File names of an experiment directory                                   *)
(***************************************************************************)
\* net_name = '_'.join(('yolo3', FLAGS.network, FLAGS.dataset)) for voc
NetName == <<"y", "o", "l", "o", "3", "_", "d", "a", "r", "k", "n", "e", "t",
             "5", "3", "_", "v", "o", "c">>

DotParams == <<".", "p", "a", "r", "a", "m", "s">>

\* '{:s}_{:04d}.params'.format(prefix, epoch), without the directory part
EpochFile(e) == NetName \o <<"_">> \o Format04d(e) \o DotParams

BestFile == NetName \o <<"_", "b", "e", "s", "t">> \o DotParams

BestLogFile == NetName \o <<"_", "b", "e", "s", "t", "_", "m", "a", "p", ".", "l", "o", "g">>

TrainLogFile == NetName \o <<"_", "t", "r", "a", "i", "n", ".", "l", "o", "g">>

\* os.listdir of the experiment directory
ListDir(epochs, hasBest, hasLog) ==
    {EpochFile(e) : e \in epochs}
        \cup (IF hasBest THEN {BestFile} ELSE {})
        \cup (IF hasLog THEN {BestLogFile} ELSE {})
        \cup {TrainLogFile}

(***************************************************************************)
(* resume(net, async_net, resume, start_epoch), the directory branch       *)
(***************************************************************************)
\* the files that survive the two filters, sorted
ResumeCandidates(listing) ==
    SortFiles({f \in listing : Contains(f, <<"_", "0">>) /\ Contains(f, DotParams)})

\* files[0] in place of files[-1]
ResumeFile_First(listing) ==
    LET files == ResumeCandidates(listing)
    IN IF files = <<>> THEN NoFile ELSE files[1]

\* resume_file, or NoFile when files[-1] raises IndexError
ResumeFile(listing) ==
    LET files == ResumeCandidates(listing)
    IN IF files = <<>> THEN NoFile ELSE files[Len(files)]

\* int(resume_file[:-7].split('_')[-1]) + 1
ResumeEpoch(resume_file) == ParseInt(LastField(DropLast(resume_file, 7), "_")) + 1

(***************************************************************************)
(* save_params(net, best_map, current_map, epoch, save_interval, prefix)   *)
(***************************************************************************)
\* '{:.4f}'.format(current_map): round to the nearest 1e-4
Format4f(cm) == (cm + 1) \div 3

\* float(text) of a logged value, back in thirds of 1e-4
ParseMap(text) == 3 * text

\* the comparison with '>=' in place of '>'
IsBetter_OrEqual(cm, best) == cm >= best

IsBetter(cm, best) == cm > best

\* the range starting one epoch early, at the previous kept checkpoint
DeleteRange_FromPrevious(e, save_interval) ==
    LET st == e + save_interval
    IN {d \in 0..(e - 1) : d >= (IF st > 0 THEN st ELSE 0)}

\* range(max(0, st), epoch) with st = epoch + save_interval + 1
DeleteRange(e, save_interval) ==
    LET st == e + save_interval + 1
    IN {d \in 0..(e - 1) : d >= (IF st > 0 THEN st ELSE 0)}

\* the per-epoch files after the call
SaveCkpts(files, e, save_interval) ==
    IF save_interval > 0 /\ e % save_interval = 0 THEN files \cup {e}
    ELSE IF save_interval < 0 THEN
        IF e % (-save_interval) = 0
        THEN (files \cup {e}) \ DeleteRange(e, save_interval)
        ELSE files \cup {e}
    ELSE files

SaveParams(cm, e) ==
    /\ current_map' = cm
    /\ IF IsBetter(cm, best_map)
       THEN /\ best_map' = cm
            /\ best_params' = e
            /\ best_writes' = best_writes + 1
            /\ best_log' = Append(best_log, <<e, Format4f(cm)>>)
       ELSE UNCHANGED <<best_map, best_params, best_writes, best_log>>
    /\ ckpts' = SaveCkpts(ckpts, e, FLAGS.save_interval)
    /\ save_calls' = Append(save_calls, e)

(***************************************************************************)
(* train(): the best-map bookkeeping and the training loop                 *)
(***************************************************************************)
Idle == [unused |-> TRUE]

\* lines = [line.split()[1] ...]; best_map = [float(lines[-1])], else [0]
InitialBestMap(resume_flag, log) ==
    IF resume_flag # "" /\ log # <<>>
    THEN ParseMap(log[Len(log)][2])
    ELSE 0

\* the last value of range(start_epoch, FLAGS.epochs + 1)
LastEpoch(epochs) == epochs

\* 'if epoch >= FLAGS.epochs - FLAGS.no_mixup_epochs'
MixupOff(e, epochs, no_mixup_epochs) == e >= epochs - no_mixup_epochs

\* 'if not (epoch + 1) % FLAGS.val_interval'
Validates(e, val_interval) == (e + 1) % val_interval = 0

TrainInit ==
    /\ FLAGS \in [save_interval : (-MaxInterval)..MaxInterval,
                  epochs : 1..MaxEpochs,
                  start_epoch : 0..(MaxEpochs + 1),
                  resume : {""},
                  mixup : BOOLEAN,
                  no_mixup_epochs : 0..MaxNoMixup,
                  val_interval : {1, 2}]
    /\ FLAGS.start_epoch <= FLAGS.epochs + 1
    /\ (~FLAGS.mixup => FLAGS.no_mixup_epochs = 0)
    /\ pc = "train"
    /\ ckpts = {}
    /\ best_params = -1
    /\ best_writes = 0
    /\ best_log = <<>>
    /\ best_map = 0
    /\ current_map = 0
    /\ epoch = 0
    /\ start_epoch = FLAGS.start_epoch
    /\ save_calls = <<>>
    /\ mixup_now = "unset"
    /\ mixup_hist = <<>>
    /\ restarts = 0
    /\ m = Idle
    /\ fs = Idle
    /\ net = Idle
    /\ det = Idle

\* train() up to the loop: reads the best mAP of the run that is resumed
TrainStart ==
    /\ pc = "train"
    /\ best_map' = InitialBestMap(FLAGS.resume, best_log)
    /\ epoch' = start_epoch
    /\ save_calls' = <<>>
    /\ mixup_hist' = <<>>
    /\ pc' = "loop"
    /\ UNCHANGED <<FLAGS, ckpts, best_params, best_writes, best_log, current_map,
                   start_epoch, mixup_now, restarts, m, fs, net, det>>

\* top of one iteration of 'for epoch in range(start_epoch, FLAGS.epochs+1)'
EpochBegin ==
    /\ pc = "loop"
    /\ epoch <= LastEpoch(FLAGS.epochs)
    /\ mixup_now' = IF ~FLAGS.mixup THEN mixup_now
                    ELSE IF MixupOff(epoch, FLAGS.epochs, FLAGS.no_mixup_epochs)
                         THEN "none" ELSE "beta"
    /\ pc' = "body"
    /\ UNCHANGED <<FLAGS, ckpts, best_params, best_writes, best_log, best_map,
                   current_map, epoch, start_epoch, save_calls, mixup_hist,
                   restarts, m, fs, net, det>>

\* the batches of the epoch, validation, and the save_params call
EpochEnd ==
    /\ pc = "body"
    /\ \E mean_ap \in 0..MaxMap :
          LET cm == IF Validates(epoch, FLAGS.val_interval) THEN mean_ap ELSE 0
          IN SaveParams(cm, epoch)
    /\ mixup_hist' = Append(mixup_hist, <<epoch, mixup_now>>)
    /\ epoch' = epoch + 1
    /\ pc' = "loop"
    /\ UNCHANGED <<FLAGS, start_epoch, mixup_now, restarts, m, fs, net, det>>

\* the range is exhausted: train() returns
TrainReturn ==
    /\ pc = "loop"
    /\ epoch > LastEpoch(FLAGS.epochs)
    /\ pc' = "done"
    /\ UNCHANGED <<FLAGS, trainVars, m, fs, net, det>>

\* the run is stopped between two epochs (or has ended) and is started again
\* with --resume <experiment directory> --start_epoch -1
Restart ==
    /\ pc \in {"loop", "done"}
    /\ restarts < MaxRestarts
    /\ restarts' = restarts + 1
    /\ FLAGS' = [FLAGS EXCEPT !.resume = "dir", !.start_epoch = -1]
    /\ LET resume_file == ResumeFile(ListDir(ckpts, best_params # -1, best_log # <<>>))
       IN IF resume_file = NoFile
          THEN /\ pc' = "raised"
               /\ UNCHANGED start_epoch
          ELSE /\ pc' = "train"
               /\ start_epoch' = ResumeEpoch(resume_file)
    /\ best_map' = 0
    /\ current_map' = 0
    /\ epoch' = 0
    /\ save_calls' = <<>>
    /\ mixup_hist' = <<>>
    /\ mixup_now' = "unset"
    /\ UNCHANGED <<ckpts, best_params, best_writes, best_log, m, fs, net, det>>

Next == TrainStart \/ EpochBegin \/ EpochEnd \/ TrainReturn \/ Restart

Spec == TrainInit /\ [][Next]_vars

\* the last element of a non-empty sequence
Last(s) == s[Len(s)]

(***************************************************************************)
(* C1: with save_interval = -n and save_params called for the consecutive  *)
(* epochs 0, 1, 2, ... on an empty directory, after the call for epoch e   *)
(* the per-epoch files are exactly the multiples of n up to e and every    *)
(* epoch after the largest such multiple; epoch e's file is among them.    *)
(***************************************************************************)
C1_Expected(n, e) ==
    LET top == e - (e % n)
    IN {d \in 0..e : d % n = 0 \/ d > top}

C1_CheckpointsKept ==
    (/\ FLAGS.save_interval < 0
     /\ restarts = 0
     /\ start_epoch = 0
     /\ save_calls # <<>>)
    => /\ ckpts = C1_Expected(-FLAGS.save_interval, Last(save_calls))
       /\ Last(save_calls) \in ckpts

\* a run with n = 2 that has reached epoch 3: the file of epoch 1 was deleted
C1_Witness ==
    /\ FLAGS.save_interval = -2
    /\ restarts = 0
    /\ start_epoch = 0
    /\ save_calls = <<0, 1, 2, 3>>
    /\ ckpts = {0, 2, 3}

(***************************************************************************)
(* C2: in every save_params call best_map[0] does not decrease, and the    *)
(* call rewrites _best.params and appends one line to _best_map.log        *)
(* exactly when current_map is strictly greater than best_map[0] before    *)
(* the call, after which best_map[0] is that current_map.                  *)
(***************************************************************************)
C2_IsSaveCall == Len(save_calls') = Len(save_calls) + 1

C2_BestAlwaysSaved ==
    [][C2_IsSaveCall =>
        /\ best_map' >= best_map
        /\ (current_map' > best_map) <=>
               (/\ best_writes' = best_writes + 1
                /\ best_params' = Last(save_calls')
                /\ Len(best_log') = Len(best_log) + 1)
        /\ (current_map' > best_map) => best_map' = current_map'
        /\ ~(current_map' > best_map) =>
               UNCHANGED <<best_map, best_params, best_writes, best_log>>]_vars

\* two calls improved the best mAP, a later one equalled it and wrote nothing
C2_Witness ==
    /\ best_writes = 2
    /\ Len(save_calls) = 3
    /\ current_map = best_map
    /\ best_map > 0

(***************************************************************************)
(* C4: train() started at epoch s with 0 <= s <= epochs runs exactly       *)
(* epochs - s training epochs and calls save_params once at the end of     *)
(* each, with the epoch numbers s, s + 1, ...                              *)
(***************************************************************************)
C4_EpochsCompleted ==
    (pc = "done" /\ 0 <= start_epoch /\ start_epoch <= FLAGS.epochs)
    => /\ Len(save_calls) = FLAGS.epochs - start_epoch
       /\ \A i \in 1..Len(save_calls) : save_calls[i] = start_epoch + i - 1

(***************************************************************************)
(* C5: with mixup enabled, the epochs of a run of train() that are trained *)
(* with set_mixup(None) are exactly the last no_mixup_epochs epochs of the *)
(* run, and every earlier epoch is trained with np.random.beta(1.5, 1.5).  *)
(***************************************************************************)
C5_NoMixupInLastEpochs ==
    (pc = "done" /\ FLAGS.mixup)
    => LET n == Len(mixup_hist)
       IN \A i \in 1..n :
             mixup_hist[i][2] = (IF i > n - FLAGS.no_mixup_epochs THEN "none" ELSE "beta")

(***************************************************************************)
(* resume() on its own: any experiment directory, either branch            *)
(***************************************************************************)
\* epochs whose checkpoint may be in the directory that is resumed from
ResumePool == {0, 7, 12, 999, 1000, 1005, 10000}

\* values of --resume when it names a parameter file
ResumePaths == {EpochFile(7), BestFile \o <<" ">>, <<" ">> \o EpochFile(1000)}

ResumeInit ==
    /\ \E se \in {-1, 0, 5} :
          \E path \in (IF se = -1 THEN {<<"d", "i", "r", " ">>} ELSE ResumePaths) :
             FLAGS = [resume |-> path, start_epoch |-> se]
    /\ pc = "resume"
    /\ ckpts \in SUBSET ResumePool
    /\ best_params \in {-1, 0}
    /\ best_writes = 0
    /\ best_log \in {<<>>, <<<<0, 1>>>>}
    /\ (best_params = -1 <=> best_log = <<>>)
    /\ best_map = 0
    /\ current_map = 0
    /\ epoch = 0
    /\ start_epoch = 0
    /\ save_calls = <<>>
    /\ mixup_now = "unset"
    /\ mixup_hist = <<>>
    /\ restarts = 0
    /\ m = [net_file |-> NoFile, async_file |-> NoFile, returned |-> -1]
    /\ fs = Idle
    /\ net = Idle
    /\ det = Idle

\* start_epoch == -1: the latest checkpoint of the directory
ResumeLatest ==
    /\ pc = "resume"
    /\ FLAGS.start_epoch = -1
    /\ LET resume_file == ResumeFile(ListDir(ckpts, best_params # -1, best_log # <<>>))
       IN IF resume_file = NoFile
          THEN /\ pc' = "raised"
               /\ UNCHANGED m
          ELSE /\ pc' = "resumed"
               /\ m' = [net_file |-> resume_file, async_file |-> resume_file,
                        returned |-> ResumeEpoch(resume_file)]
    /\ UNCHANGED <<FLAGS, trainVars, fs, net, det>>

\* any other start_epoch: the given parameter file
ResumeGiven ==
    /\ pc = "resume"
    /\ FLAGS.start_epoch # -1
    /\ pc' = "resumed"
    /\ m' = [net_file |-> Strip(FLAGS.resume), async_file |-> Strip(FLAGS.resume),
             returned |-> FLAGS.start_epoch]
    /\ UNCHANGED <<FLAGS, trainVars, fs, net, det>>

NextResume == ResumeLatest \/ ResumeGiven

SpecResume == ResumeInit /\ [][NextResume]_vars

\* the greatest element of a non-empty set of integers
MaxOf(S) == CHOOSE x \in S : \A y \in S : y <= x

C3_ZeroLed(files) == {e \in files : Len(Format04d(e)) = 4 /\ Head(Format04d(e)) = "0"}

VOC == <<"v", "o", "c">>
COCO == <<"c", "o", "c", "o">>
DET == <<"d", "e", "t">>
VID == <<"v", "i", "d">>

\* the order in which get_dataset tests for the datasets
DatasetOrder == <<VOC, COCO, DET, VID>>

\* a Python list of strings, and a Python string
PyList(v) == [kind |-> "list", v |-> v]
PyStr(v) == [kind |-> "str", v |-> v]

\* 'name in x': element of a list, substring of a string
In(name, x) ==
    IF x.kind = "list" THEN \E i \in 1..Len(x.v) : x.v[i] = name
    ELSE Contains(x.v, name)

\* os.path.join('models', 'experiments', FLAGS.save_prefix)
ExperimentPath(save_prefix) ==
    <<"m", "o", "d", "e", "l", "s", "/", "e", "x", "p", "e", "r", "i", "m",
      "e", "n", "t", "s", "/">> \o save_prefix

\* get_dataset(dataset_name, dataset_val_name, save_prefix): the names of the
\* datasets that make up train_dataset and val_dataset, or the error raised
GetDataset(dataset_name, dataset_val_name) ==
    LET val_name == IF Len(dataset_val_name.v) = 0 THEN dataset_name
                    ELSE dataset_val_name
        train_datasets == SelectSeq(DatasetOrder, LAMBDA n : In(n, dataset_name))
        val_datasets == SelectSeq(DatasetOrder, LAMBDA n : In(n, val_name))
    IN IF Len(train_datasets) = 0 \/ Len(val_datasets) = 0
       THEN [error |-> "NotImplementedError", train |-> NoDataset, val |-> NoDataset]
       ELSE [error |-> None, train |-> train_datasets, val |-> val_datasets]

\* the call main() makes for --trained_on
TrainedOnCall(trained_on, save_prefix) ==
    GetDataset(PyStr(trained_on), PyStr(ExperimentPath(save_prefix)))

\* the check without the --resume condition
WontOverwrite_IgnoresResume(exists, resume_flag, save_prefix) ==
    /\ exists
    /\ save_prefix # <<"0", "0", "0", "0">>

\* 'os.path.exists(dir) and not bool(FLAGS.resume.strip()) and
\*  FLAGS.save_prefix != "0000"'
WontOverwrite(exists, resume_flag, save_prefix) ==
    /\ exists
    /\ Strip(resume_flag) = <<>>
    /\ save_prefix # <<"0", "0", "0", "0">>

\* parameters set by net.initialize() instead of a file
Initialized == <<"i", "n", "i", "t">>

NoNet == [classes |-> NoDataset, built_with |-> NoDataset, params |-> NoFile]

MainFlags ==
    [dataset : {PyList(<<VOC>>), PyList(<<VID>>), PyList(<<VOC, COCO>>),
                PyList(<<<<"x">>>>)},
     dataset_val : {PyList(<<>>)},
     trained_on : {<<>>, VOC, COCO, VID},
     save_prefix : {<<"0", "0", "0", "0">>, <<"0", "0", "0", "1">>,
                    <<"v", "o", "c", "1">>},
     resume : {<<>>, <<" ">>, <<"d", "i", "r">>, BestFile},
     start_epoch : {-1, 0},
     window : {1, 2}]

MainInit ==
    /\ FLAGS \in MainFlags
    /\ (Strip(FLAGS.resume) = <<"d", "i", "r">> <=> FLAGS.start_epoch = -1)
    /\ pc = "main"
    /\ fs \in [exists : BOOLEAN]
    /\ ckpts \in {{}, {0, 2, 3}}
    /\ best_params \in {-1, 2}
    /\ best_log \in {<<>>, <<<<2, 1>>>>}
    /\ (best_params = -1 <=> best_log = <<>>)
    /\ (~fs.exists => ckpts = {} /\ best_params = -1)
    /\ best_writes = 0
    /\ best_map = 0
    /\ current_map = 0
    /\ epoch = 0
    /\ start_epoch = 0
    /\ save_calls = <<>>
    /\ mixup_now = "unset"
    /\ mixup_hist = <<>>
    /\ restarts = 0
    /\ m = [train_dataset |-> NoDataset, val_dataset |-> NoDataset,
            trained_on_dataset |-> NoDataset, raised |-> None, at |-> None,
            dir0 |-> [exists |-> fs.exists, ckpts |-> ckpts,
                      best_params |-> best_params, best_log |-> best_log]]
    /\ net = [net |-> NoNet, async_net |-> NoNet]
    /\ det = Idle

\* the window flag: a window of several frames needs the vid dataset
MainWindow ==
    /\ pc = "main"
    /\ IF FLAGS.window > 1 /\ ~In(VID, FLAGS.dataset)
       THEN /\ pc' = "raised"
            /\ m' = [m EXCEPT !.raised = "AssertionError", !.at = "window"]
       ELSE /\ pc' = "datasets"
            /\ UNCHANGED m
    /\ UNCHANGED <<FLAGS, trainVars, fs, net, det>>

\* train_dataset, val_dataset, eval_metric = get_dataset(...)
MainGetDataset ==
    /\ pc = "datasets"
    /\ LET r == GetDataset(FLAGS.dataset, FLAGS.dataset_val)
       IN IF r.error # None
          THEN /\ pc' = "raised"
               /\ m' = [m EXCEPT !.raised = r.error, !.at = "dataset"]
          ELSE /\ pc' = "trained_on"
               /\ m' = [m EXCEPT !.train_dataset = r.train, !.val_dataset = r.val]
    /\ UNCHANGED <<FLAGS, trainVars, fs, net, det>>

\* trained_on_dataset: the training dataset, or the one of --trained_on
MainTrainedOn ==
    /\ pc = "trained_on"
    /\ IF FLAGS.trained_on = <<>>
       THEN /\ pc' = "guard"
            /\ m' = [m EXCEPT !.trained_on_dataset = m.train_dataset]
       ELSE LET r == TrainedOnCall(FLAGS.trained_on, FLAGS.save_prefix)
            IN IF r.error # None
               THEN /\ pc' = "raised"
                    /\ m' = [m EXCEPT !.raised = r.error, !.at = "trained_on"]
               ELSE /\ pc' = "guard"
                    /\ m' = [m EXCEPT !.trained_on_dataset = r.train]
    /\ UNCHANGED <<FLAGS, trainVars, fs, net, det>>

\* an existing experiment is not restarted; otherwise the directory is made
MainGuard ==
    /\ pc = "guard"
    /\ IF WontOverwrite(fs.exists, FLAGS.resume, FLAGS.save_prefix)
       THEN /\ pc' = "returned"
            /\ UNCHANGED fs
       ELSE /\ pc' = "get_net"
            /\ fs' = [fs EXCEPT !.exists = TRUE]
    /\ UNCHANGED <<FLAGS, trainVars, m, net, det>>

\* get_net(): both networks are built for the classes of trained_on_dataset,
\* then their parameters are resumed or initialised
MainGetNet ==
    /\ pc = "get_net"
    /\ LET built == [classes |-> m.trained_on_dataset,
                     built_with |-> m.trained_on_dataset, params |-> NoFile]
           resume_flag == Strip(FLAGS.resume)
           resume_file == ResumeFile(ListDir(ckpts, best_params # -1, best_log # <<>>))
       IN IF resume_flag = <<>>
          THEN /\ net' = [net |-> [built EXCEPT !.params = Initialized],
                          async_net |-> [built EXCEPT !.params = Initialized]]
               /\ start_epoch' = FLAGS.start_epoch
               /\ pc' = "reset_class"
               /\ UNCHANGED m
          ELSE IF FLAGS.start_epoch = -1
          THEN IF resume_file = NoFile
               THEN /\ net' = [net |-> built, async_net |-> built]
                    /\ pc' = "raised"
                    /\ m' = [m EXCEPT !.raised = "IndexError", !.at = "get_net"]
                    /\ UNCHANGED start_epoch
               ELSE /\ net' = [net |-> [built EXCEPT !.params = resume_file],
                               async_net |-> [built EXCEPT !.params = resume_file]]
                    /\ start_epoch' = ResumeEpoch(resume_file)
                    /\ pc' = "reset_class"
                    /\ UNCHANGED m
          ELSE IF resume_flag = BestFile /\ best_params = -1
               THEN /\ net' = [net |-> built, async_net |-> built]
                    /\ pc' = "raised"
                    /\ m' = [m EXCEPT !.raised = "FileNotFoundError", !.at = "get_net"]
                    /\ UNCHANGED start_epoch
               ELSE /\ net' = [net |-> [built EXCEPT !.params = resume_flag],
                               async_net |-> [built EXCEPT !.params = resume_flag]]
                    /\ start_epoch' = FLAGS.start_epoch
                    /\ pc' = "reset_class"
                    /\ UNCHANGED m
    /\ UNCHANGED <<FLAGS, ckpts, best_params, best_writes, best_log, best_map,
                   current_map, epoch, save_calls, mixup_now, mixup_hist,
                   restarts, fs, det>>

\* 'if FLAGS.trained_on: net.reset_class(...); async_net.reset_class(...)',
\* the network summary, the data loaders and the call of train()
MainResetClass ==
    /\ pc = "reset_class"
    /\ net' = IF FLAGS.trained_on # <<>>
              THEN [net |-> [net.net EXCEPT !.classes = m.train_dataset],
                    async_net |-> [net.async_net EXCEPT !.classes = m.train_dataset]]
              ELSE net
    /\ pc' = "train"
    /\ UNCHANGED <<FLAGS, trainVars, m, fs, det>>

NextMain ==
    \/ MainWindow
    \/ MainGetDataset
    \/ MainTrainedOn
    \/ MainGuard
    \/ MainGetNet
    \/ MainResetClass

SpecMain == MainInit /\ [][NextMain]_vars

\* main() has gone past the check for an existing experiment
C6_PastGuard ==
    \/ pc \in {"get_net", "reset_class", "train"}
    \/ (pc = "raised" /\ m.at = "get_net")

C6_DirUnchanged ==
    /\ fs.exists = m.dir0.exists
    /\ ckpts = m.dir0.ckpts
    /\ best_params = m.dir0.best_params
    /\ best_log = m.dir0.best_log
    /\ best_writes = 0

(***************************************************************************)
(* C6: main() returns at the check for an existing experiment exactly when *)
(* the experiment directory exists, --resume is empty and save_prefix is   *)
(* not '0000'; it has then built no network, started no training and left  *)
(* every checkpoint and log file as it was.  In every other case it makes  *)
(* the directory and goes on to build the network and train.  An existing  *)
(* experiment that is not resumed is left untouched in every state.        *)
(***************************************************************************)
C6_NeverOverwrites ==
    LET existing == /\ m.dir0.exists
                    /\ Strip(FLAGS.resume) = <<>>
                    /\ FLAGS.save_prefix # <<"0", "0", "0", "0">>
    IN /\ pc = "returned" =>
            /\ existing
            /\ net.net = NoNet /\ net.async_net = NoNet
            /\ save_calls = <<>>
            /\ C6_DirUnchanged
       /\ C6_PastGuard => (~existing /\ fs.exists)
       /\ existing => (C6_DirUnchanged /\ net.net = NoNet /\ pc # "train")

\* an existing experiment 0001 started again without --resume: main returned
C6_WitnessReturned ==
    /\ pc = "returned"
    /\ FLAGS.save_prefix = <<"0", "0", "0", "1">>
    /\ FLAGS.resume = <<" ">>
    /\ ckpts = {0, 2, 3}
    /\ net.net = NoNet

(***************************************************************************)
(* C7: when --trained_on names a supported dataset, main() obtains that    *)
(* dataset through get_dataset, builds both networks with its classes and  *)
(* afterwards resets both to the classes of the training dataset, so that  *)
(* train() is called with net.classes = train_dataset.classes; for every   *)
(* save_prefix.                                                            *)
(***************************************************************************)
C7_FineTuneResetsClasses ==
    (/\ FLAGS.trained_on \in {VOC, COCO, DET, VID}
     /\ m.train_dataset # NoDataset
     /\ pc # "trained_on")
    => /\ m.trained_on_dataset = <<FLAGS.trained_on>>
       /\ pc = "train" =>
             /\ net.net.built_with = <<FLAGS.trained_on>>
             /\ net.async_net.built_with = <<FLAGS.trained_on>>
             /\ net.net.classes = m.train_dataset
             /\ net.async_net.classes = m.train_dataset

(***************************************************************************)
(* detect_yolo3.py: prediction files                                       *)
(***************************************************************************)
\* s.split(sep) for a one-character sep
RECURSIVE Split(_, _)
Split(s, sep) ==
    LET idx == {i \in 1..Len(s) : s[i] = sep}
    IN IF idx = {} THEN <<s>>
       ELSE LET first == CHOOSE i \in idx : \A j \in idx : i <= j
            IN <<SubSeq(s, 1, first - 1)>> \o Split(SubSeq(s, first + 1, Len(s)), sep)

\* sep.join(fields)
RECURSIVE Join(_, _)
Join(fields, sep) ==
    IF fields = <<>> THEN <<>>
    ELSE IF Len(fields) = 1 THEN fields[1]
    ELSE fields[1] \o <<sep>> \o Join(Tail(fields), sep)

IsNumber(s) == s # <<>> /\ \A i \in 1..Len(s) : IsDigit(s[i])

DotJpg == <<".", "j", "p", "g">>

\* dataset.sample_path(idx): the frames of vid lie in one directory per video,
\* two frames to a video
SamplePath(dataset, idx) ==
    IF dataset = VID
    THEN <<"v">> \o Digits(idx \div 2) \o <<"/">> \o Digits(idx) \o DotJpg
    ELSE <<"i", "m", "g", "/">> \o Digits(idx) \o DotJpg

\* file_id of save_predictions
FileId(dataset, img_path) ==
    LET parts == Split(img_path, "/")
    IN IF dataset = VID THEN parts[Len(parts) - 1]
       ELSE DropLast(parts[Len(parts)], 4)

DotTxt == <<".", "t", "x", "t">>

\* "{},{},{},{},{},{},{}".format(sample_id, box[0], ..., box[5])
PredLine(sample_id, box) ==
    Join(<<sample_id>> \o [i \in 1..6 |-> Digits(box[i])], ",")

\* the only box the detector reports: [class, score, xmin, ymin, xmax, ymax]
Box1 == <<0, 5, 1, 2, 3, 4>>

\* a dict without keys
EmptyDict == <<>>

HasKey(dict, k) == k \in DOMAIN dict

\* the lines written for one sample
SampleLines(boxes, img_path) ==
    IF HasKey(boxes, img_path)
    THEN [i \in 1..Len(boxes[img_path]) |-> PredLine(img_path, boxes[img_path][i])]
    ELSE <<>>

\* the files of save_dir/pred after save_predictions(save_dir, dataset, boxes)
\* went through idx = 0 .. n - 1: open(..., 'w') replaces what the file held
RECURSIVE SavedFiles(_, _, _, _)
SavedFiles(files, dataset, boxes, n) ==
    IF n = 0 THEN files
    ELSE LET before == SavedFiles(files, dataset, boxes, n - 1)
             img_path == SamplePath(dataset, n - 1)
             name == FileId(dataset, img_path) \o DotTxt
         IN [f \in (DOMAIN before) \cup {name} |->
                IF f = name THEN SampleLines(boxes, img_path) ELSE before[f]]

\* all lines of all prediction files; the order of os.listdir does not matter
\* for what follows (each sample id is written to one file only)
RECURSIVE AllLines(_)
AllLines(files) ==
    IF DOMAIN files = {} THEN <<>>
    ELSE LET f == CHOOSE g \in DOMAIN files :
                     \A h \in DOMAIN files : h = g \/ StrLess(g, h)
         IN files[f] \o AllLines([g \in (DOMAIN files) \ {f} |-> files[g]])

\* one line of a prediction file parses: seven fields, six of them numbers
LineParses(line) ==
    LET box == Split(line, ",")
    IN Len(box) >= 7 /\ \A i \in 2..7 : IsNumber(box[i])

\* [int(box[1]), float(box[2]), ..., float(box[6])]
ParsedBox(line) ==
    LET box == Split(line, ",")
    IN [i \in 1..6 |-> ParseInt(box[i + 1])]

\* the boxes dictionary load_predictions builds from the lines
RECURSIVE BoxesOfLines(_)
BoxesOfLines(lines) ==
    IF lines = <<>> THEN EmptyDict
    ELSE LET before == BoxesOfLines(SubSeq(lines, 1, Len(lines) - 1))
             line == lines[Len(lines)]
             key == Split(line, ",")[1]
         IN [k \in (DOMAIN before) \cup {key} |->
                IF k = key
                THEN (IF HasKey(before, k) THEN before[k] ELSE <<>>) \o <<ParsedBox(line)>>
                ELSE before[k]]

\* load_predictions(save_dir): None, the dictionary, or an exception
LoadPredictions(pred_exists, files) ==
    IF ~pred_exists THEN [none |-> TRUE, boxes |-> EmptyDict, raised |-> FALSE]
    ELSE IF \E i \in 1..Len(AllLines(files)) : ~LineParses(AllLines(files)[i])
    THEN [none |-> FALSE, boxes |-> EmptyDict, raised |-> TRUE]
    ELSE [none |-> FALSE, boxes |-> BoxesOfLines(AllLines(files)), raised |-> FALSE]

\* 'if predictions is None'
NeedsDetect_Falsy(predictions) == predictions.none \/ predictions.boxes = EmptyDict

NeedsDetect(predictions) == predictions.none

(***************************************************************************)
(* detect_yolo3.py: main() and detect()                                    *)
(***************************************************************************)
Min(a, b) == IF a < b THEN a ELSE b

\* the boxes dictionary in which each of the first n samples has one box
BoxedSamples(dataset, n) ==
    [k \in {SamplePath(dataset, i) : i \in 0..(n - 1)} |-> <<Box1>>]

\* a prediction directory whose only file ends in the middle of a line
TruncatedFiles(dataset) ==
    LET img_path == SamplePath(dataset, 0)
    IN [f \in {FileId(dataset, img_path) \o DotTxt} |->
           <<DropLast(PredLine(img_path, Box1), 4)>>]

\* what save_dir/pred may hold when main() starts
InitialPredDirs(dataset, len) ==
    {[pred_exists |-> FALSE, pred |-> EmptyDict],
     [pred_exists |-> TRUE, pred |-> EmptyDict],
     [pred_exists |-> TRUE,
      pred |-> SavedFiles(EmptyDict, dataset, BoxedSamples(dataset, len), len)],
     [pred_exists |-> TRUE,
      pred |-> SavedFiles(EmptyDict, dataset, BoxedSamples(dataset, 1), len)],
     [pred_exists |-> TRUE, pred |-> TruncatedFiles(dataset)]}

NotUsed == [used |-> FALSE, boxes |-> EmptyDict]

DetInit ==
    /\ FLAGS \in [dataset : {VOC, VID},
                  max_do : (-1)..MaxSamples,
                  batch_size : 1..MaxBatch]
    /\ pc = "main"
    /\ \E len \in 1..MaxSamples :
          /\ fs \in InitialPredDirs(FLAGS.dataset, len)
          /\ m = [len |-> len, batch_size |-> 0, max_do |-> 0,
                  predictions |-> [none |-> TRUE, boxes |-> EmptyDict, raised |-> FALSE],
                  detect_called |-> FALSE, saved |-> FALSE,
                  vis_used |-> NotUsed, eval_used |-> NotUsed,
                  raised |-> None, dir0 |-> fs]
    /\ det = [c |-> 0, ib |-> 0, processed |-> <<>>, boxes |-> EmptyDict]
    /\ net = [runs |-> 0]
    /\ ckpts = {}
    /\ best_params = -1
    /\ best_writes = 0
    /\ best_log = <<>>
    /\ best_map = 0
    /\ current_map = 0
    /\ epoch = 0
    /\ start_epoch = 0
    /\ save_calls = <<>>
    /\ mixup_now = "unset"
    /\ mixup_hist = <<>>
    /\ restarts = 0

\* main() up to os.makedirs(save_dir): batch size and max_do are fitted to the
\* dataset
DetMainSetup ==
    /\ pc = "main"
    /\ m' = [m EXCEPT !.batch_size = Min(FLAGS.batch_size, m.len),
                      !.max_do = IF FLAGS.max_do < 0 THEN m.len ELSE FLAGS.max_do]
    /\ pc' = "load"
    /\ UNCHANGED <<FLAGS, trainVars, fs, net, det>>

\* predictions = load_predictions(save_dir), and the test that follows
DetLoad ==
    /\ pc = "load"
    /\ LET predictions == LoadPredictions(fs.pred_exists, fs.pred)
       IN IF predictions.raised
          THEN /\ pc' = "raised"
               /\ m' = [m EXCEPT !.raised = "IndexError"]
          ELSE IF NeedsDetect(predictions)
          THEN /\ pc' = "detect"
               /\ m' = [m EXCEPT !.predictions = predictions, !.detect_called = TRUE]
          ELSE /\ pc' = "visualise"
               /\ m' = [m EXCEPT !.predictions = predictions]
    /\ UNCHANGED <<FLAGS, trainVars, fs, net, det>>

\* the sample indices of batch ib of the loader (last_batch='keep')
BatchSamples(ib, batch_size, len) ==
    {i \in 0..(len - 1) : ib * batch_size <= i /\ i < (ib + 1) * batch_size}

\* 'if c > max_do: break'
DetectBreaks(c, max_do) == c > max_do

\* boxes after the detections of one batch were added
AddBoxes(boxes, dataset, outs) ==
    LET found == {SamplePath(dataset, i) : i \in {j \in DOMAIN outs : outs[j] # <<>>}}
        OutOf(k) == outs[CHOOSE i \in DOMAIN outs : SamplePath(dataset, i) = k]
    IN [k \in (DOMAIN boxes) \cup found |->
           (IF HasKey(boxes, k) THEN boxes[k] ELSE <<>>)
               \o (IF k \in found THEN OutOf(k) ELSE <<>>)]

\* one iteration of 'for ib, batch in enumerate(loader)' of detect()
DetectBatch ==
    /\ pc = "detect"
    /\ BatchSamples(det.ib, m.batch_size, m.len) # {}
    /\ LET batch == BatchSamples(det.ib, m.batch_size, m.len)
           c == det.c + Cardinality(batch)
       IN \E outs \in [batch -> {<<>>, <<Box1>>}] :
             LET boxes == AddBoxes(det.boxes, FLAGS.dataset, outs)
             IN /\ net' = [net EXCEPT !.runs = net.runs + Cardinality(batch)]
                /\ det' = [c |-> c, ib |-> det.ib + 1,
                           processed |-> det.processed
                               \o [k \in 1..Cardinality(batch) |->
                                      det.ib * m.batch_size + k - 1],
                           boxes |-> boxes]
                /\ IF DetectBreaks(c, m.max_do)
                   THEN /\ pc' = "save"
                        /\ m' = [m EXCEPT !.predictions =
                                    [none |-> FALSE, boxes |-> boxes, raised |-> FALSE]]
                   ELSE UNCHANGED <<pc, m>>
    /\ UNCHANGED <<FLAGS, trainVars, fs>>

\* the loader is exhausted: detect() returns boxes
DetectReturn ==
    /\ pc = "detect"
    /\ BatchSamples(det.ib, m.batch_size, m.len) = {}
    /\ pc' = "save"
    /\ m' = [m EXCEPT !.predictions =
                [none |-> FALSE, boxes |-> det.boxes, raised |-> FALSE]]
    /\ UNCHANGED <<FLAGS, trainVars, fs, net, det>>

\* save_predictions(save_dir, dataset, predictions): one file per sample
DetSave ==
    /\ pc = "save"
    /\ fs' = [pred_exists |-> TRUE,
              pred |-> SavedFiles(fs.pred, FLAGS.dataset, m.predictions.boxes, m.len)]
    /\ m' = [m EXCEPT !.saved = TRUE]
    /\ pc' = "visualise"
    /\ UNCHANGED <<FLAGS, trainVars, net, det>>

\* visualise_predictions(save_dir, dataset, trained_on_dataset, predictions, ...)
DetVisualise ==
    /\ pc = "visualise"
    /\ m' = [m EXCEPT !.vis_used = [used |-> TRUE, boxes |-> m.predictions.boxes]]
    /\ pc' = "evaluate"
    /\ UNCHANGED <<FLAGS, trainVars, fs, net, det>>

\* evaluate(metrics, dataset, predictions): det_bboxes is unbound when the
\* first sample has no prediction
DetEvaluate ==
    /\ pc = "evaluate"
    /\ IF HasKey(m.predictions.boxes, SamplePath(FLAGS.dataset, 0))
       THEN /\ pc' = "done"
            /\ m' = [m EXCEPT !.eval_used = [used |-> TRUE, boxes |-> m.predictions.boxes]]
       ELSE /\ pc' = "raised"
            /\ m' = [m EXCEPT !.eval_used = [used |-> TRUE, boxes |-> m.predictions.boxes],
                              !.raised = "UnboundLocalError"]
    /\ UNCHANGED <<FLAGS, trainVars, fs, net, det>>

NextDetect ==
    \/ DetMainSetup
    \/ DetLoad
    \/ DetectBatch
    \/ DetectReturn
    \/ DetSave
    \/ DetVisualise
    \/ DetEvaluate

SpecDetect == DetInit /\ [][NextDetect]_vars

\* detect() has returned
C8_Detected == m.detect_called /\ pc \in {"save", "visualise", "evaluate", "done", "raised"}

(***************************************************************************)
(* C8: max_do is the maximum number of samples to detect on: for           *)
(* 0 <= max_do < len(dataset) detect() runs the network on, and returns    *)
(* predictions for, at most max_do samples, whatever the batch size; for   *)
(* max_do < 0 it processes every sample.                                   *)
(***************************************************************************)
C8_AtMostMaxDo ==
    C8_Detected =>
        IF FLAGS.max_do < 0
        THEN Len(det.processed) = m.len
        ELSE FLAGS.max_do < m.len =>
                /\ Len(det.processed) <= FLAGS.max_do
                /\ net.runs <= FLAGS.max_do
                /\ Cardinality(DOMAIN det.boxes) <= FLAGS.max_do

(***************************************************************************)
(* C9: main() calls detect() and save_predictions() exactly when           *)
(* load_predictions returns None, that is when save_dir/pred does not      *)
(* exist.  When the directory exists, also empty or partly written, the    *)
(* network is not run, no prediction file is rewritten, and visualisation  *)
(* and evaluation are given exactly the dictionary that was loaded.        *)
(***************************************************************************)
C9_CachedPredictions ==
    LET cached == m.dir0.pred_exists
        lines == AllLines(m.dir0.pred)
    IN /\ pc \in {"detect", "save"} => ~cached
       /\ pc \in {"visualise", "evaluate", "done"} =>
             /\ m.detect_called <=> ~cached
             /\ m.saved <=> ~cached
       /\ cached =>
             /\ ~m.detect_called /\ ~m.saved
             /\ net.runs = 0
             /\ fs = m.dir0
             /\ \A used \in {m.vis_used, m.eval_used} :
                   used.used =>
                      /\ DOMAIN used.boxes = {Split(lines[i], ",")[1] : i \in 1..Len(lines)}
                      /\ used.boxes = m.predictions.boxes

\* an empty save_dir/pred: nothing is detected, the empty dictionary is used
C9_WitnessEmptyDir ==
    /\ m.dir0 = [pred_exists |-> TRUE, pred |-> EmptyDict]
    /\ m.vis_used = [used |-> TRUE, boxes |-> EmptyDict]
    /\ m.eval_used.used
    /\ net.runs = 0
    /\ m.len = 2

\* predictions of an earlier run are found and used for both samples
C9_WitnessCached ==
    /\ pc = "done"
    /\ FLAGS.dataset = VOC
    /\ m.len = 2
    /\ m.dir0.pred_exists
    /\ net.runs = 0
    /\ DOMAIN m.eval_used.boxes = {SamplePath(VOC, 0), SamplePath(VOC, 1)}
    /\ m.eval_used.boxes[SamplePath(VOC, 1)] = <<Box1>>
    /\ m.vis_used = m.eval_used

(***************************************************************************)
(* yolo3.py: YOLOV3.set_nms and the inference tail of hybrid_forward       *)
(* Thresholds and scores are in hundredths.                                *)
(***************************************************************************)
\* one row of the concatenated detections: (cid, score, box)
DetRows == {[id |-> 0, score |-> 90, box |-> 1], [id |-> 0, score |-> 50, box |-> 1],
            [id |-> 1, score |-> 50, box |-> 1], [id |-> 1, score |-> 0, box |-> 1]}

\* a row box_nms has invalidated
Suppressed == [id |-> -1, score |-> -1, box |-> -1]

IsValid(row) == row.id >= 0

CountValid(rows) == Cardinality({i \in 1..Len(rows) : IsValid(rows[i])})

\* rows ordered by descending score, ties in the order given
RECURSIVE ByScore(_)
ByScore(rows) ==
    IF rows = <<>> THEN <<>>
    ELSE LET best == CHOOSE i \in 1..Len(rows) :
                        \A j \in 1..Len(rows) :
                           \/ rows[j].score < rows[i].score
                           \/ (rows[j].score = rows[i].score /\ i <= j)
             rest == [k \in 1..(Len(rows) - 1) |-> IF k < best THEN rows[k] ELSE rows[k + 1]]
         IN <<rows[best]>> \o ByScore(rest)

\* the rows that survive among the ordered candidates: a row is dropped when
\* a kept row of the same class covers the same box (force_suppress=False)
RECURSIVE KeepRows(_, _)
KeepRows(kept, rows) ==
    IF rows = <<>> THEN kept
    ELSE LET r == Head(rows)
             covered == \E i \in 1..Len(kept) : kept[i].id = r.id /\ kept[i].box = r.box
         IN KeepRows(IF covered THEN kept ELSE Append(kept, r), Tail(rows))

\* F.contrib.box_nms(result, overlap_thresh, valid_thresh=0.01, topk, ...):
\* the output has the shape of the input, kept rows first, the others -1
BoxNms(rows, topk) ==
    LET valid == SelectSeq(rows, LAMBDA r : r.score > 1)
        sorted == ByScore(valid)
        cand == IF topk > 0 /\ topk < Len(sorted) THEN SubSeq(sorted, 1, topk) ELSE sorted
        kept == KeepRows(<<>>, cand)
    IN kept \o [i \in 1..(Len(rows) - Len(kept)) |-> Suppressed]

\* 'if self.nms_thresh > 0 and self.nms_thresh < 1'
NmsEnabled(nms_thresh) == nms_thresh > 0 /\ nms_thresh < 100

\* result.slice_axis(axis=1, begin=0, end=post_nms)
SliceRows(rows, post_nms) == SubSeq(rows, 1, Min(post_nms, Len(rows)))

\* the rows hybrid_forward returns at inference
InferenceResult(rows, nms_thresh, nms_topk, post_nms) ==
    IF NmsEnabled(nms_thresh)
    THEN LET result == BoxNms(rows, nms_topk)
         IN IF post_nms > 0 THEN SliceRows(result, post_nms) ELSE result
    ELSE rows

NmsInit ==
    /\ net = [nms_thresh |-> 45, nms_topk |-> 400, post_nms |-> 100,
              dets |-> <<>>, result |-> <<>>]
    /\ pc = "built"
    /\ FLAGS = Idle
    /\ m = Idle
    /\ fs = Idle
    /\ det = Idle
    /\ ckpts = {}
    /\ best_params = -1
    /\ best_writes = 0
    /\ best_log = <<>>
    /\ best_map = 0
    /\ current_map = 0
    /\ epoch = 0
    /\ start_epoch = 0
    /\ save_calls = <<>>
    /\ mixup_now = "unset"
    /\ mixup_hist = <<>>
    /\ restarts = 0

\* set_nms(nms_thresh, nms_topk, post_nms)
SetNms ==
    /\ \E nms_thresh \in {-50, 0, 45, 100, 150}, nms_topk \in {-1, 2, 400},
          post_nms \in {-1, 0, 1, 2} :
          net' = [net EXCEPT !.nms_thresh = nms_thresh, !.nms_topk = nms_topk,
                             !.post_nms = post_nms]
    /\ pc' = "set"
    /\ UNCHANGED <<FLAGS, trainVars, m, fs, det>>

\* hybrid_forward outside training, from the concatenated detections on
Forward ==
    /\ \E n \in 1..MaxDets :
          \E rows \in [1..n -> DetRows] :
             net' = [net EXCEPT !.dets = rows,
                        !.result = InferenceResult(rows, net.nms_thresh,
                                                   net.nms_topk, net.post_nms)]
    /\ pc' = "inferred"
    /\ UNCHANGED <<FLAGS, trainVars, m, fs, det>>

NextNms == SetNms \/ Forward

SpecNms == NmsInit /\ [][NextNms]_vars

(***************************************************************************)
(* C10: at inference only the top post_nms detections are returned: for    *)
(* every nms_thresh, also one that disables NMS, at most post_nms          *)
(* detections are returned when post_nms > 0, and all of them when         *)
(* post_nms is -1.                                                         *)
(***************************************************************************)
C10_AtMostPostNms ==
    pc = "inferred" =>
        /\ net.post_nms > 0 => CountValid(net.result) <= net.post_nms
        /\ net.post_nms = -1 => Len(net.result) = Len(net.dets)

(***************************************************************************)
(* yolo3.py: the temporal detectors YOLOV3T and YOLOV3TB                   *)
(* A string argument is a TLA+ string, Python's None is None; the window   *)
(* size k is <<>> for None and <<n>> for the integer n.                    *)
(***************************************************************************)
\* k=None, the default of both constructors
NoK == <<>>

\* the values of k tried
KValues == {NoK} \cup {<<n>> : n \in 0..MaxK}

\* 'k > 1' raises TypeError when k is None
KRaises(k) == k = NoK

\* 'k > 1' for an integer k
KGreater1(k) == k[1] > 1

\* the constructor arguments tried: the documented values and one other each
CtorArgs ==
    [k : KValues,
     k_join_type : {None, "max", "mean", "cat", "sum"},
     k_join_pos : {None, "early", "late", "middle"},
     block_conv_type : {"2", "3", "21"},
     rnn_pos : {None, "late", "out", "early"},
     corr_pos : {None, "early", "late", "out"},
     rnn_shapes : {None, "given"},
     stages : 1..MaxStages]

\* the assertions at the head of __init__: the exception raised, or None
CtorAsserts(a) ==
    IF a.rnn_pos \notin {None, "late", "out"} THEN "AssertionError"
    ELSE IF a.block_conv_type \in {"3", "21"} /\ KRaises(a.k) THEN "TypeError"
    ELSE IF a.block_conv_type \in {"3", "21"} /\ ~KGreater1(a.k) THEN "AssertionError"
    ELSE IF a.block_conv_type \in {"3", "21"} /\ a.k_join_pos # "late" THEN "AssertionError"
    ELSE IF a.block_conv_type \in {"3", "21"} /\ a.k_join_type = None THEN "AssertionError"
    ELSE IF a.k_join_type \notin {None, "max", "mean", "cat"} THEN "AssertionError"
    ELSE IF a.k_join_pos \notin {None, "early", "late"} THEN "AssertionError"
    ELSE IF a.corr_pos \notin {None, "early", "late"} THEN "AssertionError"
    ELSE IF a.rnn_pos = "late" /\ a.k_join_pos # "late" THEN "AssertionError"
    ELSE IF a.rnn_pos = "late" /\ a.k_join_type \notin {None, "max", "mean", "cat"}
    THEN "AssertionError"
    ELSE None

\* the rest of __init__ for n stages: 'if k > 1 and ...' and rnn_shapes[i]
CtorLayersRaise(a, n) ==
    IF KRaises(a.k) THEN "TypeError"
    ELSE IF n > 0 /\ a.rnn_pos \in {"late", "out"} /\ a.rnn_shapes = None THEN "TypeError"
    ELSE None

\* 'self._k_join_pos == 'late' or self._corr_pos == 'late' or rnn_pos in ['late','out']'
KeepsTime(a) ==
    a.k_join_pos = "late" \/ a.corr_pos = "late" \/ a.rnn_pos \in {"late", "out"}

\* the blocks __init__ builds for n stages
BuiltLayers(a, n) ==
    [pool |-> KGreater1(a.k) /\ a.k_join_type \in {"max", "mean"},
     corr |-> KGreater1(a.k) /\ a.corr_pos # None,
     stages |-> [i \in 1..n |-> [time_distributed |-> KGreater1(a.k)]],
     yolo_blocks |-> [i \in 1..n |->
         [time_distributed |-> KGreater1(a.k) /\ a.block_conv_type = "2" /\ KeepsTime(a),
          has_tip |-> a.rnn_pos # "late",
          conv_type |-> a.block_conv_type]],
     yolo_tips |-> IF a.rnn_pos = "late"
                   THEN [i \in 1..n |-> "rnn"]
                   ELSE <<None, None, None>>,
     yolo_outputs |-> [i \in 1..n |->
         [rnn |-> a.rnn_pos = "out"]],
     transitions |-> [i \in 1..(n - 1) |->
         [time_distributed |-> KGreater1(a.k) /\ KeepsTime(a)]]]

\* no detector
NoDetector == [built |-> FALSE]

\* __init__ of either class with arguments a and n stages: the exception raised
\* (or None) and the detector built
Construct(cls, a, n) ==
    LET asserted == CtorAsserts(a)
        raised == IF asserted # None THEN asserted ELSE CtorLayersRaise(a, n)
    IN [exception |-> raised,
        net |-> IF raised # None THEN NoDetector
                ELSE [built |-> TRUE, cls |-> cls, _k |-> a.k,
                      _k_join_type |-> a.k_join_type, _k_join_pos |-> a.k_join_pos,
                      _block_conv_type |-> a.block_conv_type, _rnn_pos |-> a.rnn_pos,
                      _corr_pos |-> a.corr_pos,
                      layers |-> BuiltLayers(a, n)]]

\* YOLOV3T(stages, channels, anchors, strides, classes, ...)
ConstructYOLOV3T ==
    /\ pc = "new"
    /\ m.cls = "YOLOV3T"
    /\ LET made == Construct("YOLOV3T", m.args, m.args.stages)
       IN /\ m' = [m EXCEPT !.exception = made.exception]
          /\ net' = made.net
          /\ pc' = IF made.exception # None THEN "raised" ELSE "constructed"
    /\ UNCHANGED <<FLAGS, trainVars, fs, det>>

\* YOLOV3TB(d_model, channels, anchors, strides, classes, ...): zip(range(3), ...)
ConstructYOLOV3TB ==
    /\ pc = "new"
    /\ m.cls = "YOLOV3TB"
    /\ LET made == Construct("YOLOV3TB", m.args, 3)
       IN /\ m' = [m EXCEPT !.exception = made.exception]
          /\ net' = made.net
          /\ pc' = IF made.exception # None THEN "raised" ELSE "constructed"
    /\ UNCHANGED <<FLAGS, trainVars, fs, det>>

TemporalInit ==
    /\ \E cls \in {"YOLOV3T", "YOLOV3TB"}, a \in CtorArgs :
          m = [cls |-> cls, args |-> a, exception |-> None]
    /\ net = NoDetector
    /\ pc = "new"
    /\ FLAGS = Idle
    /\ fs = Idle
    /\ det = Idle
    /\ ckpts = {}
    /\ best_params = -1
    /\ best_writes = 0
    /\ best_log = <<>>
    /\ best_map = 0
    /\ current_map = 0
    /\ epoch = 0
    /\ start_epoch = 0
    /\ save_calls = <<>>
    /\ mixup_now = "unset"
    /\ mixup_hist = <<>>
    /\ restarts = 0

(***************************************************************************)
(* yolo3.py: YOLOV3T.hybrid_forward, the two loops over the stages.        *)
(* A feature map is the number of operations that have merged its temporal *)
(* dimension so far (reshape to K*C, TemporalPooling, Corr, the pooling of *)
(* a recurrent output layer).                                              *)
(***************************************************************************)
\* 'self._k > 1 and self._k_join_pos == 'early' and self._rnn_pos != 'out''
JoinsEarly(d) == KGreater1(d._k) /\ d._k_join_pos = "early" /\ d._rnn_pos # "out"

\* 'self._k > 1 and self._k_join_pos == 'late' and self._rnn_pos != 'out''
JoinsLate(d) == KGreater1(d._k) /\ d._k_join_pos = "late" /\ d._rnn_pos # "out"

\* what the first loop appends to routes for a stage output x: nothing or one map
RouteOf(d, x) ==
    IF JoinsEarly(d)
    THEN IF d._k_join_type = "cat" THEN <<x + 1>>
         ELSE IF d._k_join_type \in {"max", "mean"} THEN <<x + 1>>
         ELSE <<>>
    ELSE IF KGreater1(d._k) /\ d._corr_pos = "early" THEN <<x + 1>>
    ELSE <<x>>

\* x after the first loop
EarlyJoined(d, x) ==
    IF JoinsEarly(d)
    THEN IF d._k_join_type = "cat" THEN x + 1
         ELSE IF d._k_join_type \in {"max", "mean"} THEN x + 1
         ELSE x
    ELSE IF KGreater1(d._k) /\ d._corr_pos = "early" THEN x + 1
    ELSE x

\* tip after the late join
LateJoined(d, tip) ==
    IF JoinsLate(d)
    THEN IF d._k_join_type = "cat" THEN tip + 1
         ELSE IF d._k_join_type \in {"max", "mean"} THEN tip + 1
         ELSE tip
    ELSE IF KGreater1(d._k) /\ d._corr_pos = "late" THEN tip + 1
    ELSE tip

\* what reaches the prediction of an output layer: a recurrent layer pools over k
OutputInput(layer, tip) == IF layer.rnn THEN tip + 1 ELSE tip

\* routes after 'for stage, block, output in zip(self.stages, ...)'
RECURSIVE Routes(_, _, _)
Routes(d, x, n) == IF n = 0 THEN <<>> ELSE RouteOf(d, x) \o Routes(d, x, n - 1)

\* the second loop from iteration i on; zipped is the length of the zip
RECURSIVE OutputLoop(_, _, _, _, _, _)
OutputLoop(d, routes, zipped, i, x, done) ==
    IF i >= zipped THEN done
    ELSE LET tip == LateJoined(d, x)
             outs == Append(done.all_detections,
                            OutputInput(d.layers.yolo_outputs[i + 1], tip))
         IN IF i >= Len(routes) - 1
            THEN [done EXCEPT !.all_detections = outs]
            ELSE IF i + 1 > Len(d.layers.transitions)
            THEN [done EXCEPT !.all_detections = outs, !.exception = "IndexError"]
            ELSE OutputLoop(d, routes, zipped, i + 1, x,
                            [done EXCEPT !.all_detections = outs,
                                         !.transitions = Append(done.transitions, i)])

\* hybrid_forward of a detector d on an input whose temporal dimension is whole
ForwardLoops(d) ==
    LET n == Len(d.layers.stages)
        routes == Routes(d, 0, n)
        x == EarlyJoined(d, 0)
        zipped == Min(Min(Len(routes), Len(d.layers.yolo_blocks)),
                      Min(Len(d.layers.yolo_tips), Len(d.layers.yolo_outputs)))
        looped == OutputLoop(d, routes, zipped, 0, x,
                             [all_detections |-> <<>>, transitions |-> <<>>,
                              exception |-> None])
    IN [routes |-> routes,
        all_detections |-> looped.all_detections,
        transitions |-> looped.transitions,
        exception |-> IF looped.exception # None THEN looped.exception
                      ELSE IF looped.all_detections = <<>> THEN "MXNetError"
                      ELSE None]

\* net(x) for a constructed YOLOV3T
ForwardYOLOV3T ==
    /\ pc = "constructed"
    /\ net.cls = "YOLOV3T"
    /\ det' = ForwardLoops(net)
    /\ pc' = "forwarded"
    /\ UNCHANGED <<FLAGS, trainVars, m, fs, net>>

NextTemporal ==
    \/ ConstructYOLOV3T
    \/ ConstructYOLOV3TB
    \/ ForwardYOLOV3T

SpecTemporal == TemporalInit /\ [][NextTemporal]_vars

(***************************************************************************)
(* C14: for every configuration the YOLOV3T constructor accepts, the       *)
(* forward pass collects one route per backbone stage, produces one        *)
(* detection output per stage, applies transitions[i] for i in             *)
(* 0 .. stages - 2 only, and, when k > 1, merges the temporal dimension    *)
(* exactly once on the way from the stage output to each output layer.     *)
(***************************************************************************)
C14_ForwardShape ==
    pc = "forwarded" =>
        /\ Len(det.routes) = m.args.stages
        /\ Len(det.all_detections) = m.args.stages
        /\ \A j \in 1..Len(det.transitions) :
              det.transitions[j] \in 0..(m.args.stages - 2)
        /\ KGreater1(net._k) =>
              \A j \in 1..Len(det.all_detections) : det.all_detections[j] = 1

\* the configurations the constructors are meant to accept
C11_Consistent(a) ==
    /\ a.rnn_pos \in {None, "late", "out"}
    /\ a.k_join_type \in {None, "max", "mean", "cat"}
    /\ a.k_join_pos \in {None, "early", "late"}
    /\ a.corr_pos \in {None, "early", "late"}
    /\ a.block_conv_type \in {"3", "21"} =>
          /\ a.k # NoK /\ a.k[1] > 1
          /\ a.k_join_pos = "late"
          /\ a.k_join_type # None
    /\ a.rnn_pos = "late" =>
          /\ a.k_join_pos = "late"
          /\ a.k_join_type \in {"max", "mean", "cat"}

(***************************************************************************)
(* C11: YOLOV3T and YOLOV3TB are constructed only with a consistent        *)
(* configuration (rnn_pos, k_join_type, k_join_pos, corr_pos among their   *)
(* documented values; block_conv_type '3' or '21' with k > 1, late joining *)
(* and a k_join_type; rnn_pos 'late' with late joining and a k_join_type   *)
(* of max, mean or cat), and every other configuration is rejected with an *)
(* AssertionError.                                                         *)
(***************************************************************************)
C11_OnlyConsistentConstructed ==
    pc \in {"constructed", "raised"} =>
        /\ pc = "constructed" => C11_Consistent(m.args)
        /\ ~C11_Consistent(m.args) =>
              (pc = "raised" /\ m.exception = "AssertionError")

(***************************************************************************)
(* youtubebb.py: YouTubeBBDetection._load_items and __getitem__            *)
(* A csv row is a tuple of strings (youtube id, timestamp, class id,       *)
(* class name, object id, presence); a dict is a function on its keys.     *)
(***************************************************************************)
\* id[5] of a row whose object is not in the frame; any other value counts as present
Absent == <<"a", "b", "s", "e", "n", "t">>

\* the annotation rows a csv file is made of
RowPool ==
    {<<<<"a">>, <<"5">>, <<"1">>, <<"c", "a", "t">>, <<"0">>, <<"p", "r", "e", "s", "e", "n", "t">>>>,
     <<<<"a">>, <<"1", "0">>, <<"1">>, <<"c", "a", "t">>, <<"0">>, <<"p", "r", "e", "s", "e", "n", "t">>>>,
     <<<<"a">>, <<"2", "0">>, <<"1">>, <<"c", "a", "t">>, <<"0">>, Absent>>,
     <<<<"a">>, <<"1", "0">>, <<"1">>, <<"c", "a", "t">>, <<"1">>, <<"p", "r", "e", "s", "e", "n", "t">>>>,
     <<<<"b">>, <<"5">>, <<"1">>, <<"c", "a", "t">>, <<"0">>, <<"p", "r", "e", "s", "e", "n", "t">>>>,
     <<<<"b">>, <<"1", "0">>, <<"1">>, <<"c", "a", "t">>, <<"0">>, Absent>>}

\* the values of the 'frames' argument: 1 (all), 2 (two per video), 1/2 (every second)
FramesValues == {<<1, 1>>, <<2, 1>>, <<1, 2>>}

\* dict[k] = v
Put(dict, k, v) == [x \in (DOMAIN dict) \cup {k} |-> IF x = k THEN v ELSE dict[x]]

\* vid_id of a row
VidId(id, clips) ==
    IF clips THEN id[1] \o <<",">> \o id[3] \o <<",">> \o id[5] ELSE id[1]

\* the loop 'for id in ids' that fills videos
RECURSIVE GroupRows(_, _, _, _)
GroupRows(videos, ids, clips, allow_empty) ==
    IF ids = <<>> THEN videos
    ELSE LET id == Head(ids)
             vid_id == VidId(id, clips)
             frame_id == id[2]
             ann == SubSeq(id, 3, Len(id))
             added ==
                 IF HasKey(videos, vid_id)
                 THEN IF HasKey(videos[vid_id], frame_id)
                      THEN Put(videos, vid_id,
                               Put(videos[vid_id], frame_id,
                                   Append(videos[vid_id][frame_id], ann)))
                      ELSE Put(videos, vid_id, Put(videos[vid_id], frame_id, <<ann>>))
                 ELSE Put(videos, vid_id, Put(EmptyDict, frame_id, <<ann>>))
         IN IF ~allow_empty /\ id[6] = Absent
            THEN GroupRows(videos, Tail(ids), clips, allow_empty)
            ELSE GroupRows(added, Tail(ids), clips, allow_empty)

\* the frames kept of the sorted frames of one video, 'only take a % of the dataset':
\* every int(1 / frames)-th, or every int(math.ceil(len(frames) / frames))-th
KeptFrames(sorted, frames) ==
    LET n == Len(sorted)
        step == IF frames[1] = 1 THEN frames[2]
                ELSE (n + frames[1] - 1) \div frames[1]
    IN {sorted[i + 1] : i \in {j \in 0..(n - 1) : j % step = 0}}

\* videos after the frames that are not kept were deleted
CutFrames(videos, frames) ==
    IF frames = <<1, 1>> THEN videos
    ELSE [vid_id \in DOMAIN videos |->
             LET kept == KeptFrames(SortFiles(DOMAIN videos[vid_id]), frames)
             IN [frame_id \in kept |-> videos[vid_id][frame_id]]]

\* frame_ids of one video: vid_id + ',' + frame_id over the sorted frame ids
FrameIds(videos, vid_id) ==
    LET sorted == SortFiles(DOMAIN videos[vid_id])
    IN [i \in 1..Len(sorted) |-> vid_id \o <<",">> \o sorted[i]]

Max(a, b) == IF a > b THEN a ELSE b

\* range(start, stop, step) as a sequence, for step # 0
RECURSIVE Range(_, _, _)
Range(start, stop, step) ==
    IF (step > 0 /\ start >= stop) \/ (step < 0 /\ start <= stop) THEN <<>>
    ELSE <<start>> \o Range(start + step, stop, step)

\* the forward loop of a window, with its break
RECURSIVE ForwardFrames(_, _, _, _, _)
ForwardFrames(window, forw, frame_ids, i, window_size_arg) ==
    IF forw = <<>> \/ Len(window) = window_size_arg THEN window
    ELSE ForwardFrames(
             Append(window, frame_ids[Min(Len(frame_ids) - 1, i + Head(forw)) + 1]),
             Tail(forw), frame_ids, i, window_size_arg)

\* the forward loop without 'if len(window) == self._window_size: break'
Window_NoBreak(frame_ids, i, window_size_arg, window_step) ==
    LET window_size == window_size_arg \div 2
        back == Range(window_size * window_step, window_step - 1, -window_step)
        forw == Range(window_step, window_size * window_step + 1, window_step)
        before == [j \in 1..Len(back) |-> frame_ids[Max(0, i - back[j]) + 1]]
        after == [j \in 1..Len(forw) |->
                     frame_ids[Min(Len(frame_ids) - 1, i + forw[j]) + 1]]
    IN Append(before, frame_ids[i + 1]) \o after

\* the window of frame i (from 0) of a video
Window(frame_ids, i, window_size_arg, window_step) ==
    LET window_size == window_size_arg \div 2
        back == Range(window_size * window_step, window_step - 1, -window_step)
        forw == Range(window_step, window_size * window_step + 1, window_step)
        before == [j \in 1..Len(back) |-> frame_ids[Max(0, i - back[j]) + 1]]
    IN ForwardFrames(Append(before, frame_ids[i + 1]), forw, frame_ids, i,
                     window_size_arg)

\* the keys of the frames dict: vid_id + ',' + frame_id
SampleKeys(videos) ==
    UNION {{vid_id \o <<",">> \o frame_id : frame_id \in DOMAIN videos[vid_id]} :
           vid_id \in DOMAIN videos}

\* self._windows after the loops over the videos and their frames
Windows(videos, window_size, window_step) ==
    [k \in SampleKeys(videos) |->
        LET vid_id == CHOOSE v \in DOMAIN videos :
                         \E i \in 1..Len(FrameIds(videos, v)) : FrameIds(videos, v)[i] = k
            frame_ids == FrameIds(videos, vid_id)
            i == CHOOSE j \in 0..(Len(frame_ids) - 1) : frame_ids[j + 1] = k
        IN Window(frame_ids, i, window_size, window_step)]

\* 'frames': each sample is a frame, not a video
Frames(videos) ==
    [k \in SampleKeys(videos) |->
        LET vid_id == CHOOSE v \in DOMAIN videos :
                         \E f \in DOMAIN videos[v] : v \o <<",">> \o f = k
            frame_id == CHOOSE f \in DOMAIN videos[vid_id] : vid_id \o <<",">> \o f = k
        IN videos[vid_id][frame_id]]

\* 'if videos or window_size > 1: allow_empty = True', allow_empty=False given
AllowEmpty(videos_arg, window_size) == videos_arg \/ window_size > 1

\* no dataset object yet
NoYouTubeBB == [loaded |-> FALSE]

\* self._image_path.format(*self._samples[sid]): two replacement fields
FormatRaises(sample) == Len(sample) < 2

WindowsInit ==
    /\ \E window_size \in 1..MaxWindow, window_step \in 1..MaxStep,
          clips \in BOOLEAN, videos_arg \in BOOLEAN, frames \in FramesValues :
          m = [window_size |-> window_size, window_step |-> window_step,
               clips |-> clips, videos |-> videos_arg, frames |-> frames,
               got |-> <<>>, exception |-> None]
    /\ \E n \in 0..MaxRows : \E ids \in [1..n -> RowPool] : fs = [ids |-> ids]
    /\ det = NoYouTubeBB
    /\ pc = "new"
    /\ net = Idle
    /\ FLAGS = Idle
    /\ ckpts = {}
    /\ best_params = -1
    /\ best_writes = 0
    /\ best_log = <<>>
    /\ best_map = 0
    /\ current_map = 0
    /\ epoch = 0
    /\ start_epoch = 0
    /\ save_calls = <<>>
    /\ mixup_now = "unset"
    /\ mixup_hist = <<>>
    /\ restarts = 0

\* YouTubeBBDetection(...): __init__ with _load_items
LoadItems ==
    /\ pc = "new"
    /\ LET grouped == GroupRows(EmptyDict, fs.ids, m.clips,
                                AllowEmpty(m.videos, m.window_size))
           videos == CutFrames(grouped, m.frames)
           samples == IF m.videos THEN videos ELSE Frames(videos)
       IN det' = [loaded |-> TRUE,
                  has_windows |-> ~m.videos /\ m.window_size > 1,
                  _windows |-> IF ~m.videos /\ m.window_size > 1
                               THEN Windows(videos, m.window_size, m.window_step)
                               ELSE EmptyDict,
                  _samples |-> samples,
                  _sample_ids |-> SortFiles(DOMAIN samples)]
    /\ pc' = "loaded"
    /\ UNCHANGED <<FLAGS, trainVars, m, fs, net>>

\* dataset[idx] with videos=False: the window read and the frames it names
GetItem ==
    /\ pc \in {"loaded", "got"}
    /\ ~m.videos
    /\ \E idx \in 0..(Len(det._sample_ids) - 1) :
          LET sample_id == det._sample_ids[idx + 1]
              window == IF m.window_size > 1 THEN det._windows[sample_id] ELSE <<>>
          IN m' = [m EXCEPT
                     !.got = <<sample_id, window>>,
                     !.exception =
                         IF m.window_size > 1
                         THEN IF ~HasKey(det._samples, window[1]) THEN "KeyError"
                              ELSE IF FormatRaises(det._samples[window[1]])
                                   THEN "IndexError"
                                   ELSE "MXNetError"
                         ELSE None]
    /\ pc' = "got"
    /\ UNCHANGED <<FLAGS, trainVars, fs, net, det>>

\* dataset[idx] with videos=True: every frame of the video is read
GetVideo ==
    /\ pc \in {"loaded", "got"}
    /\ m.videos
    /\ \E idx \in 0..(Len(det._sample_ids) - 1) :
          LET sample_id == det._sample_ids[idx + 1]
          IN m' = [m EXCEPT !.got = <<sample_id, SortFiles(DOMAIN det._samples[sample_id])>>]
    /\ pc' = "got"
    /\ UNCHANGED <<FLAGS, trainVars, fs, net, det>>

NextWindows ==
    \/ LoadItems
    \/ GetItem
    \/ GetVideo

SpecWindows == WindowsInit /\ [][NextWindows]_vars

\* the video/clip part of a sample id: what precedes the last comma
C12_VideoOf(sample_id) ==
    LET fields == Split(sample_id, ",")
    IN Join(SubSeq(fields, 1, Len(fields) - 1), ",")

(***************************************************************************)
(* C12: with window_size w > 1, window_step >= 1 and videos=False the      *)
(* dataset holds exactly one window per sample id, every window has        *)
(* exactly w frame ids (w odd or even), every frame id of a window is a    *)
(* sample of the same video/clip as the sample the window is keyed by, and *)
(* __getitem__ reads that window.                                          *)
(***************************************************************************)
C12_OneFullWindowPerSample ==
    (det.loaded /\ ~m.videos /\ m.window_size > 1) =>
        /\ det.has_windows
        /\ DOMAIN det._windows = DOMAIN det._samples
        /\ \A k \in DOMAIN det._windows :
              /\ Len(det._windows[k]) = m.window_size
              /\ \A j \in 1..Len(det._windows[k]) :
                    /\ det._windows[k][j] \in DOMAIN det._samples
                    /\ C12_VideoOf(det._windows[k][j]) = C12_VideoOf(k)
              /\ \E j \in 1..Len(det._windows[k]) : det._windows[k][j] = k
        /\ pc = "got" =>
              /\ m.got[1] \in DOMAIN det._samples
              /\ m.got[2] = det._windows[m.got[1]]

\* an even window (w = 4) around the middle frame of a video of three frames:
\* padded with the first frame at the front, cut by the break at the back
C12_Witness ==
    /\ pc = "got"
    /\ m.window_size = 4
    /\ m.window_step = 1
    /\ ~m.videos
    /\ ~m.clips
    /\ Cardinality(DOMAIN det._samples) = 3
    /\ m.got = <<<<"a", ",", "2", "0">>,
                 <<<<"a", ",", "1", "0">>, <<"a", ",", "1", "0">>,
                   <<"a", ",", "2", "0">>, <<"a", ",", "5">>>>>>

(***************************************************************************)
(* yolo3.py: hierarchical class masking of YOLOOutputV3.hybrid_forward and *)
(* the inference path of YOLOV3T.hybrid_forward that uses it.              *)
(* Scores are in hundredths; one image, one predicted box.                 *)
(***************************************************************************)
\* thresh = 0.3
Thresh == 30

\* class scores tried: at the threshold, just above it, high
ScoreValues == {30, 31, 90}

\* hier_info = (levels, leafs) for n classes
HierInfos(n) ==
    {[given |-> TRUE, levels |-> lv, leafs |-> lf] :
        lv \in [1..n -> 1..MaxLevel], lf \in [1..n -> {0, 1}]}

\* hier_info=None
NoHierInfo == [given |-> FALSE, levels |-> <<>>, leafs |-> <<>>]

\* np.max of a non-empty vector
NpMax(v) == CHOOSE x \in {v[i] : i \in 1..Len(v)} : \A i \in 1..Len(v) : v[i] <= x

\* np.argmax: the first index (from 1) of the maximum
NpArgmax(v) == CHOOSE i \in 1..Len(v) : v[i] = NpMax(v) /\ \A j \in 1..(i - 1) : v[j] # NpMax(v)

\* np.maximum(leaf_mask, level_mask) for one level
LevelMask(levels, leafs, level) ==
    [c \in 1..Len(levels) |->
        Max(IF levels[c] < level THEN leafs[c] ELSE 0,
            IF levels[c] = level THEN 1 ELSE 0)]

\* 'if max_score >= thresh'
AboveThresh_OrEqual(max_score) == max_score >= Thresh

\* 'if max_score > thresh'
AboveThresh(max_score) == max_score > Thresh

\* mx_mask[b, :] after 'for level in range(int(max(levels)), 0, -1)' from level on
RECURSIVE HierMaskRow(_, _, _, _)
HierMaskRow(levels, leafs, box_scores, level) ==
    IF level <= 0 THEN [c \in 1..Len(box_scores) |-> 0]
    ELSE LET mask == LevelMask(levels, leafs, level)
             masked_scores == [c \in 1..Len(box_scores) |-> mask[c] * box_scores[c]]
         IN IF AboveThresh(NpMax(masked_scores))
            THEN [c \in 1..Len(box_scores) |->
                     IF c = NpArgmax(masked_scores) THEN 1 ELSE 0]
            ELSE HierMaskRow(levels, leafs, box_scores, level - 1)

\* scores_flt[b, :] = mx_mask[b, :] * scores_flt[b, :]
MaskedClassScore(hier_info, box_scores) ==
    LET mx_mask == HierMaskRow(hier_info.levels, hier_info.leafs, box_scores,
                               NpMax(hier_info.levels))
    IN [c \in 1..Len(box_scores) |-> mx_mask[c] * box_scores[c]]

\* detections of one box: a row (cid, score, box) per class
ClassRows(scores) == [c \in 1..Len(scores) |-> [id |-> c - 1, score |-> scores[c], box |-> 1]]

\* YOLOOutputV3.hybrid_forward outside training: what it returns
OutputForward(layer, confidence, class_score) ==
    IF layer.agnostic
    THEN [pair |-> FALSE,
          detections |-> <<[id |-> 0, score |-> confidence, box |-> 1]>>,
          class_score_masked |-> <<>>, detections_masked |-> <<>>]
    ELSE IF layer.hier_info.given
    THEN [pair |-> TRUE,
          detections |-> ClassRows(class_score),
          class_score_masked |-> MaskedClassScore(layer.hier_info, class_score),
          detections_masked |->
              ClassRows(MaskedClassScore(layer.hier_info, class_score))]
    ELSE [pair |-> FALSE,
          detections |-> ClassRows(class_score),
          class_score_masked |-> <<>>, detections_masked |-> <<>>]

\* the output layer YOLOV3T.__init__ builds: hier_info only without rnn_pos 'out'
OutputLayer(rnn_pos, agnostic, hier_info) ==
    [agnostic |-> agnostic,
     hier_info |-> IF rnn_pos = "out" THEN NoHierInfo ELSE hier_info]

HierInit ==
    /\ \E n \in 1..MaxClasses :
          \E hier_info \in HierInfos(n) \cup {NoHierInfo}, agnostic \in BOOLEAN,
             rnn_pos \in {None, "out"}, nms_thresh \in {45, 100} :
             net = [_hier_info |-> hier_info, _rnn_pos |-> rnn_pos,
                    num_class |-> n,
                    nms_thresh |-> nms_thresh, nms_topk |-> 400, post_nms |-> 100,
                    yolo_output |-> OutputLayer(rnn_pos, agnostic, hier_info),
                    result |-> <<>>]
    /\ m = [class_score |-> <<>>, exception |-> None]
    /\ det = [pair |-> FALSE, detections |-> <<>>, class_score_masked |-> <<>>,
              detections_masked |-> <<>>]
    /\ pc = "built"
    /\ FLAGS = Idle
    /\ fs = Idle
    /\ ckpts = {}
    /\ best_params = -1
    /\ best_writes = 0
    /\ best_log = <<>>
    /\ best_map = 0
    /\ current_map = 0
    /\ epoch = 0
    /\ start_epoch = 0
    /\ save_calls = <<>>
    /\ mixup_now = "unset"
    /\ mixup_hist = <<>>
    /\ restarts = 0

\* YOLOV3T.hybrid_forward outside training and returning: 'dets, dets_masked =
\* output(tip)', the concatenation, box_nms and the slices
HierForwardReturns ==
    /\ pc = "built"
    /\ \E class_score \in [1..net.num_class -> ScoreValues] :
          LET out == OutputForward(net.yolo_output, 90, class_score)
              result == IF net._hier_info.given /\ Len(out.detections_masked) > 0
                        THEN out.detections_masked
                        ELSE out.detections
          IN /\ net._hier_info.given => out.pair
             /\ det' = out
             /\ m' = [m EXCEPT !.class_score = class_score]
             /\ net' = [net EXCEPT !.result =
                           InferenceResult(result, net.nms_thresh, net.nms_topk,
                                           net.post_nms)]
    /\ pc' = "returned"
    /\ UNCHANGED <<FLAGS, trainVars, fs>>

\* YOLOV3T.hybrid_forward outside training when 'dets, dets_masked = output(tip)'
\* gets a single array of one image
HierForwardRaises ==
    /\ pc = "built"
    /\ net._hier_info.given
    /\ \E class_score \in [1..net.num_class -> ScoreValues] :
          LET out == OutputForward(net.yolo_output, 90, class_score)
          IN /\ ~out.pair
             /\ det' = out
             /\ m' = [m EXCEPT !.class_score = class_score,
                               !.exception = "ValueError"]
    /\ pc' = "raised"
    /\ UNCHANGED <<FLAGS, trainVars, fs, net>>

NextHier ==
    \/ HierForwardReturns
    \/ HierForwardRaises

SpecHier == HierInit /\ [][NextHier]_vars

\* the candidates at a level: its classes and the leaf classes of shallower levels
C13_Candidates(level) ==
    {c \in 1..net.num_class :
        \/ net._hier_info.levels[c] = level
        \/ (net._hier_info.levels[c] < level /\ net._hier_info.leafs[c] = 1)}

\* the levels that have a candidate above 0.3
C13_HitLevels ==
    {level \in 1..NpMax(net._hier_info.levels) :
        \E c \in C13_Candidates(level) : m.class_score[c] > Thresh}

\* the masked scores the claim describes
C13_Expected ==
    IF C13_HitLevels = {} THEN [c \in 1..net.num_class |-> 0]
    ELSE LET level == CHOOSE l \in C13_HitLevels : \A k \in C13_HitLevels : k <= l
             best == CHOOSE c \in C13_Candidates(level) :
                        \A d \in C13_Candidates(level) :
                           \/ m.class_score[d] < m.class_score[c]
                           \/ (m.class_score[d] = m.class_score[c] /\ c <= d)
         IN [c \in 1..net.num_class |-> IF c = best THEN m.class_score[c] ELSE 0]

(***************************************************************************)
(* C13: with hier_info given, the masked class scores of a predicted box   *)
(* have at most one non-zero entry: levels are searched from the deepest   *)
(* down to level 1, the candidates of a level are its classes and the leaf *)
(* classes of shallower levels, the first level whose best candidate       *)
(* exceeds 0.3 keeps the score of that arg-max class only, and without     *)
(* such a level all masked scores are zero; NMS and the detections         *)
(* returned use the masked scores.                                         *)
(***************************************************************************)
C13_MaskedScores ==
    (pc = "returned" /\ net._hier_info.given) =>
        /\ det.pair
        /\ Cardinality({c \in 1..net.num_class : det.class_score_masked[c] # 0}) <= 1
        /\ det.class_score_masked = C13_Expected
        /\ Len(net.result) = net.num_class
        /\ \A i \in 1..Len(net.result) :
              IsValid(net.result[i]) =>
                 net.result[i].score = det.class_score_masked[net.result[i].id + 1]
        /\ NmsEnabled(net.nms_thresh) =>
              {net.result[i].id + 1 : i \in {j \in 1..Len(net.result) : IsValid(net.result[j])}}
                  = {c \in 1..net.num_class : det.class_score_masked[c] # 0}
        /\ ~NmsEnabled(net.nms_thresh) => net.result = det.detections_masked

\* no class of the deepest level exceeds 0.3, so the search goes down to
\* level 1 and keeps its class; NMS returns that detection only
C13_Witness ==
    /\ pc = "returned"
    /\ net._hier_info = [given |-> TRUE, levels |-> <<1, 2>>, leafs |-> <<0, 1>>]
    /\ m.class_score = <<90, 30>>
    /\ det.class_score_masked = <<90, 0>>
    /\ NmsEnabled(net.nms_thresh)
    /\ CountValid(net.result) = 1
    /\ net.result[1] = [id |-> 0, score |-> 90, box |-> 1]

====
